---- MODULE Spec2Model ----
(***************************************************************************)
(* A model of src/src/lib.rs: the context-free grammar structure `Cfg`,    *)
(* its two constructors (`new`, `from_pieces`), its mutators (`add_rule`,  *)
(* `set_name`) and its accessors (`get_start`, `name`, `get_rules`).       *)
(*                                                                         *)
(* Symbols are u64 values.  The width of u64 is scaled down to U64Bits     *)
(* bits; symbol ids are drawn from 0..MaxSym together with the largest     *)
(* u64 value, so the wrap-around of `start: -1` is in every run.  The      *)
(* model fixes a target on which `uint` is as wide as u64 (a 64-bit        *)
(* build), and it does not model memory exhaustion inside VecMap.          *)
(***************************************************************************)
EXTENDS Integers, Sequences, FiniteSets, TLC

VARIABLES
    cfg,    \* the caller's handle: None, or Some(the Cfg struct)
    pc,     \* "run", or "aborted" after a failed assert!
    last,   \* the last call: its name, its arguments and what it returned
    born,   \* history: the call that created the grammar held in cfg
    hist    \* history: the add_rule and set_name calls that completed

vars == <<cfg, pc, last, born, hist>>

----------------------------------------------------------------------------
(* Bounds *)

U64Bits == 16        \* scaled width of u64
MaxSym == 1          \* symbol ids are 0..MaxSym and U64Max
MaxBodyLen == 1      \* longest body passed to add_rule
MaxOps == 2          \* add_rule and set_name calls per grammar
MaxPieceBodies == 2  \* bodies in a table passed to from_pieces
MaxPieceSyms == 2    \* symbols, over all bodies, in such a table

----------------------------------------------------------------------------
(* u64, uint and Option *)

U64Modulus == 2 ^ U64Bits
U64Max == U64Modulus - 1
WrapU64(x) == x % U64Modulus

UintModulus == U64Modulus
AsUint(x) == x % UintModulus

None == <<>>
Some(x) == <<x>>

Syms == (0 .. MaxSym) \cup {U64Max}
Names == {"A", "B"}

----------------------------------------------------------------------------
(* VecMap: a map keyed by uint *)

VecMapNew == [k \in {} |-> <<>>]

VecMapGet(m, k) == IF k \in DOMAIN m THEN Some(m[k]) ELSE None

\* insert returns the value that was stored under the key before
VecMapInsert(m, k, v) ==
    [map |-> [x \in (DOMAIN m) \cup {k} |-> IF x = k THEN v ELSE m[x]],
     old |-> VecMapGet(m, k)]

----------------------------------------------------------------------------
(* impl Cfg *)

new(last_token) ==
    [rules |-> VecMapNew, symbol_map |-> VecMapNew,
     start |-> WrapU64(0 - 1), last_token |-> last_token]

start_is_token_strict(start, last_token) == start < last_token

start_is_token(start, last_token) == start <= last_token

\* the mutant looks at the first symbol of each rule only
has_undefined_variable_first(rules, last_token) ==
    \E k \in DOMAIN rules :
        \E i \in 1 .. Len(rules[k]) :
            \E j \in 1 .. (IF Len(rules[k][i]) > 0 THEN 1 ELSE 0) :
                LET symbol == rules[k][i][j]
                IN  symbol > last_token
                    /\ VecMapGet(rules, AsUint(symbol)) = None

\* the three nested loops of from_pieces: TRUE when they return None
has_undefined_variable(rules, last_token) ==
    \E k \in DOMAIN rules :
        \E i \in 1 .. Len(rules[k]) :
            \E j \in 1 .. Len(rules[k][i]) :
                LET symbol == rules[k][i][j]
                IN  symbol > last_token
                    /\ VecMapGet(rules, AsUint(symbol)) = None

\* the mutant asks every symbol, tokens too, to have an entry
from_pieces_strict(rules, symbol_map, start, last_token) ==
    IF start_is_token(start, last_token)
    THEN None
    ELSE IF \E k \in DOMAIN rules :
                \E i \in 1 .. Len(rules[k]) :
                    \E j \in 1 .. Len(rules[k][i]) :
                        VecMapGet(rules, AsUint(rules[k][i][j])) = None
         THEN None
         ELSE Some([rules |-> rules, symbol_map |-> symbol_map,
                    start |-> start, last_token |-> last_token])

from_pieces(rules, symbol_map, start, last_token) ==
    IF start_is_token(start, last_token)
    THEN None
    ELSE IF has_undefined_variable(rules, last_token)
         THEN None
         ELSE Some([rules |-> rules, symbol_map |-> symbol_map,
                    start |-> start, last_token |-> last_token])

get_start(self) == self.start

name(self, symbol) == VecMapGet(self.symbol_map, AsUint(symbol))

add_rule_assert_ge(self, variable) == variable >= self.last_token

\* assert!(variable > self.last_token) of add_rule
add_rule_assert(self, variable) == variable > self.last_token

\* the mutant puts the new body in front of the alternatives
add_rule_front(self, variable, body) ==
    LET key == AsUint(variable)
    IN  IF VecMapGet(self.rules, key) # None
        THEN [self EXCEPT !.rules = [@ EXCEPT ![key] = <<body>> \o @]]
        ELSE [self EXCEPT !.rules = VecMapInsert(@, key, <<body>>).map]

\* the mutant makes the first variable that gets a rule the start symbol
add_rule_sets_start(self, variable, body) ==
    LET key == AsUint(variable)
    IN  IF VecMapGet(self.rules, key) # None
        THEN [self EXCEPT !.rules = [@ EXCEPT ![key] = Append(@, body)]]
        ELSE [self EXCEPT !.rules = VecMapInsert(@, key, <<body>>).map,
                          !.start = IF DOMAIN self.rules = {}
                                    THEN variable ELSE @]

\* the mutant also reserves an entry, without a body, for each variable
\* of the new body
add_rule_reserve(self, variable, body) ==
    LET key == AsUint(variable)
        grown == IF VecMapGet(self.rules, key) # None
                 THEN [self.rules EXCEPT ![key] = Append(@, body)]
                 ELSE VecMapInsert(self.rules, key, <<body>>).map
        used == {AsUint(body[j]) : j \in 1 .. Len(body)}
    IN  [self EXCEPT !.rules =
            [x \in (DOMAIN grown) \cup used |->
                IF x \in DOMAIN grown THEN grown[x] ELSE <<>>]]

\* add_rule after its assertion
add_rule(self, variable, body) ==
    LET key == AsUint(variable)
    IN  IF VecMapGet(self.rules, key) # None
        THEN [self EXCEPT !.rules = [@ EXCEPT ![key] = Append(@, body)]]
        ELSE [self EXCEPT !.rules = VecMapInsert(@, key, <<body>>).map]

\* the mutant keeps a name that is already there
set_name_keep(self, symbol, nm) ==
    LET key == AsUint(symbol)
        old == VecMapGet(self.symbol_map, key)
    IN  IF old # None
        THEN [self |-> self, ret |-> old]
        ELSE [self |-> [self EXCEPT !.symbol_map =
                           VecMapInsert(@, key, nm).map],
              ret |-> old]

\* set_name: the struct afterwards and the returned Option<String>
set_name(self, symbol, nm) ==
    LET r == VecMapInsert(self.symbol_map, AsUint(symbol), nm)
    IN  [self |-> [self EXCEPT !.symbol_map = r.map], ret |-> r.old]

\* assert!(variable > self.last_token) of get_rules
get_rules_assert(self, variable) == variable > self.last_token

\* the mutant answers an undefined variable with an empty list
get_rules_default(self, variable) ==
    IF AsUint(variable) \in DOMAIN self.rules
    THEN Some(self.rules[AsUint(variable)])
    ELSE Some(<<>>)

\* get_rules after its assertion
get_rules(self, variable) == VecMapGet(self.rules, AsUint(variable))

----------------------------------------------------------------------------
(* The inputs the calls are made with *)

SeqsUpTo(S, n) == UNION {[1 .. m -> S] : m \in 0 .. n}

\* the bodies add_rule is called with mention the first token and the last
\* variable
BodySyms == {0, U64Max}
Bodies == SeqsUpTo(BodySyms, MaxBodyLen)

\* the table that holds the bodies of a list of <<key, body>> pairs, the
\* bodies of one key in the order of the list
RECURSIVE TableOf(_)
TableOf(list) ==
    IF list = <<>> THEN VecMapNew
    ELSE LET t == TableOf(SubSeq(list, 1, Len(list) - 1))
             key == list[Len(list)][1]
             body == list[Len(list)][2]
         IN  [x \in (DOMAIN t) \cup {key} |->
                IF x # key THEN t[x]
                ELSE IF key \in DOMAIN t THEN Append(t[key], body)
                     ELSE <<body>>]

\* A table passed to from_pieces is laid out in MaxPieceBodies slots: slot i
\* is unused (lens[i] = Unused) or holds a body of lens[i] symbols for the
\* key keys[i]; the symbols of the bodies are taken, slot after slot, from
\* the string syms.
Slots == 1 .. MaxPieceBodies
Unused == MaxPieceSyms + 1

RECURSIVE SymsBefore(_, _)
SymsBefore(lens, i) ==
    IF i = 1 THEN 0
    ELSE SymsBefore(lens, i - 1)
         + (IF lens[i - 1] = Unused THEN 0 ELSE lens[i - 1])

SlotUsed(slot) == slot[3]

ListOf(keys, lens, syms) ==
    SelectSeq([i \in Slots |->
                 <<keys[i],
                   IF lens[i] = Unused THEN <<>>
                   ELSE SubSeq(syms, SymsBefore(lens, i) + 1,
                               SymsBefore(lens, i) + lens[i]),
                   lens[i] # Unused>>],
              SlotUsed)

PieceLens ==
    {lens \in [Slots -> 0 .. Unused] :
        SymsBefore(lens, MaxPieceBodies + 1) <= MaxPieceSyms}

PieceTables ==
    {TableOf(ListOf(keys, lens, syms)) :
        keys \in [Slots -> Syms],
        lens \in PieceLens,
        syms \in [1 .. MaxPieceSyms -> Syms]}

PieceNames == {VecMapNew, [k \in {0} |-> "A"]}

\* the pieces of a grammar that is grown afterwards: one variable, the
\* start symbol, with one rule and a name
SeedVariable == MaxSym
SeedNames == [k \in {SeedVariable} |-> "A"]
SeedTable(body) == TableOf(<<<<SeedVariable, body>>>>)

----------------------------------------------------------------------------
(* The calls *)

NoCall == [op |-> "none", args |-> <<>>, ret |-> None]

Init ==
    /\ cfg = None
    /\ pc = "run"
    /\ last = NoCall
    /\ born = NoCall
    /\ hist = <<>>

\* let mut cfg = Cfg::new(last_token)
New(last_token) ==
    /\ pc = "run"
    /\ last.op = "none"
    /\ cfg' = Some(new(last_token))
    /\ last' = [op |-> "new", args |-> <<last_token>>, ret |-> cfg']
    /\ born' = last'
    /\ hist' = <<>>
    /\ pc' = pc

\* let cfg = Cfg::from_pieces(rules, symbol_map, start, last_token)
FromPieces(rules, symbol_map, start, last_token) ==
    /\ pc = "run"
    /\ last.op = "none"
    /\ cfg' = from_pieces(rules, symbol_map, start, last_token)
    /\ last' = [op |-> "from_pieces",
                args |-> <<rules, symbol_map, start, last_token>>,
                ret |-> cfg']
    /\ born' = IF cfg' = None THEN born ELSE last'
    /\ hist' = <<>>
    /\ pc' = pc

\* cfg.get_start()
GetStart ==
    /\ pc = "run"
    /\ cfg # None
    /\ last' = [op |-> "get_start", args |-> <<>>, ret |-> get_start(cfg[1])]
    /\ UNCHANGED <<cfg, pc, born, hist>>

\* cfg.name(symbol)
Name(symbol) ==
    /\ pc = "run"
    /\ cfg # None
    /\ last' = [op |-> "name", args |-> <<symbol>>,
                ret |-> name(cfg[1], symbol)]
    /\ UNCHANGED <<cfg, pc, born, hist>>

\* cfg.add_rule(variable, body)
AddRule(variable, body) ==
    /\ pc = "run"
    /\ cfg # None
    /\ last' = [op |-> "add_rule", args |-> <<variable, body>>, ret |-> None]
    /\ IF add_rule_assert(cfg[1], variable)
       THEN /\ Len(hist) < MaxOps
            /\ cfg' = Some(add_rule(cfg[1], variable, body))
            /\ hist' = Append(hist, <<"add_rule", variable, body>>)
            /\ pc' = pc
       ELSE /\ pc' = "aborted"
            /\ UNCHANGED <<cfg, hist>>
    /\ born' = born

\* cfg.set_name(symbol, nm)
SetName(symbol, nm) ==
    /\ pc = "run"
    /\ cfg # None
    /\ Len(hist) < MaxOps
    /\ LET r == set_name(cfg[1], symbol, nm)
       IN  /\ cfg' = Some(r.self)
           /\ last' = [op |-> "set_name", args |-> <<symbol, nm>>,
                       ret |-> r.ret]
    /\ hist' = Append(hist, <<"set_name", symbol, nm>>)
    /\ UNCHANGED <<pc, born>>

\* cfg.get_rules(variable)
GetRules(variable) ==
    /\ pc = "run"
    /\ cfg # None
    /\ IF get_rules_assert(cfg[1], variable)
       THEN /\ last' = [op |-> "get_rules", args |-> <<variable>>,
                        ret |-> get_rules(cfg[1], variable)]
            /\ pc' = pc
       ELSE /\ last' = [op |-> "get_rules", args |-> <<variable>>,
                        ret |-> None]
            /\ pc' = "aborted"
    /\ UNCHANGED <<cfg, born, hist>>

\* a grammar that is created, empty or from a one-rule table, and then
\* grown and read; the constructor is the first call
Next ==
    \/ \E last_token \in Syms : New(last_token)
    \/ \E body \in Bodies :
            FromPieces(SeedTable(body), SeedNames,
                       SeedVariable, SeedVariable - 1)
    \/ GetStart
    \/ \E symbol \in Syms : Name(symbol)
    \/ \E variable \in Syms, body \in Bodies : AddRule(variable, body)
    \/ \E symbol \in Syms, nm \in Names : SetName(symbol, nm)
    \/ \E variable \in Syms : GetRules(variable)

Spec == Init /\ [][Next]_vars

\* from_pieces on every table, start symbol and threshold of the bounds
NextPieces ==
    \/ /\ last.op = "none"
       /\ \E rules \in PieceTables, symbol_map \in PieceNames,
             start \in Syms, last_token \in Syms :
               FromPieces(rules, symbol_map, start, last_token)
    \/ GetStart

SpecPieces == Init /\ [][NextPieces]_vars

----------------------------------------------------------------------------
(* What the histories say the tables hold *)

\* the tables the constructor was given
CreatedRules == IF born.op = "from_pieces" THEN born.args[1] ELSE VecMapNew
CreatedNames == IF born.op = "from_pieces" THEN born.args[2] ELSE VecMapNew

\* the bodies the add_rule calls of h gave to variable v, in call order
RECURSIVE AddedFor(_, _)
AddedFor(h, v) ==
    IF h = <<>> THEN <<>>
    ELSE LET call == h[Len(h)]
             before == AddedFor(SubSeq(h, 1, Len(h) - 1), v)
         IN  IF call[1] = "add_rule" /\ call[2] = v
             THEN Append(before, call[3])
             ELSE before

\* the name the most recent set_name call of h gave to symbol s
RECURSIVE NamedBy(_, _)
NamedBy(h, s) ==
    IF h = <<>>
    THEN IF s \in DOMAIN CreatedNames THEN Some(CreatedNames[s]) ELSE None
    ELSE LET call == h[Len(h)]
         IN  IF call[1] = "set_name" /\ call[2] = s
             THEN Some(call[3])
             ELSE NamedBy(SubSeq(h, 1, Len(h) - 1), s)

\* some body of the table mentions a variable the table has no entry for
Dangling(rules, last_token) ==
    \E v1 \in DOMAIN rules :
        \E i \in DOMAIN rules[v1] :
            \E j \in DOMAIN rules[v1][i] :
                /\ rules[v1][i][j] > last_token
                /\ rules[v1][i][j] \notin DOMAIN rules

----------------------------------------------------------------------------
(* The claims *)

\* C1: from_pieces returns None whenever start <= last_token, whatever the
\* tables are, the boundary start = last_token included.
C1_TokenStartRejected ==
    (last.op = "from_pieces" /\ last.args[3] <= last.args[4])
        => last.ret = None

\* a table that is not empty and has no dangling variable is rejected with
\* start = last_token
C1_Witness ==
    /\ last.op = "from_pieces"
    /\ last.args[3] = last.args[4]
    /\ DOMAIN last.args[1] # {}
    /\ ~Dangling(last.args[1], last.args[4])
    /\ last.ret = None

\* C2: from_pieces returns None whenever some body of the table holds a
\* variable that has no entry in the table, whatever start is and wherever
\* the variable stands.
C2_DanglingRejected ==
    (last.op = "from_pieces" /\ Dangling(last.args[1], last.args[4]))
        => last.ret = None

\* start is a variable with an entry; the dangling variable is the second
\* symbol of a body whose first symbol is a token
C2_Witness ==
    /\ last.op = "from_pieces"
    /\ last.args[3] > last.args[4]
    /\ last.args[3] \in DOMAIN last.args[1]
    /\ \E v1 \in DOMAIN last.args[1] :
           \E i \in DOMAIN last.args[1][v1] :
               LET body == last.args[1][v1][i]
               IN  /\ Len(body) = 2
                   /\ body[1] <= last.args[4]
                   /\ body[2] > last.args[4]
                   /\ body[2] \notin DOMAIN last.args[1]
    /\ last.ret = None

\* C3: from_pieces succeeds whenever start > last_token and no body holds a
\* variable without an entry; the grammar it returns holds the tables, the
\* start symbol and the threshold it was given, and get_start returns that
\* start symbol.
C3_ClosedAccepted ==
    /\ (last.op = "from_pieces" /\ last.args[3] > last.args[4]
            /\ ~Dangling(last.args[1], last.args[4]))
        => /\ last.ret = Some([rules |-> last.args[1],
                               symbol_map |-> last.args[2],
                               start |-> last.args[3],
                               last_token |-> last.args[4]])
           /\ cfg = last.ret
    /\ (last.op = "get_start" /\ born.op = "from_pieces")
        => last.ret = born.args[3]

\* get_start on a grammar made of two variables, each with a rule, one of
\* the rules mentioning a variable and one a token
C3_Witness ==
    /\ last.op = "get_start"
    /\ born.op = "from_pieces"
    /\ last.ret = born.args[3]
    /\ Cardinality(DOMAIN born.args[1]) = 2
    /\ \A k \in DOMAIN born.args[1] : k > born.args[4]
    /\ \E k \in DOMAIN born.args[1] :
           born.args[1][k][1] # <<>> /\ born.args[1][k][1][1] > born.args[4]
    /\ \E k \in DOMAIN born.args[1] :
           born.args[1][k][1] # <<>> /\ born.args[1][k][1][1] <= born.args[4]

\* C4: the start symbol of a grammar made by new is not a variable:
\* get_start() > last_token is false, also after add_rule and set_name.
C4_SentinelIsNoVariable ==
    (last.op = "get_start" /\ born.op = "new")
        => ~(last.ret > cfg[1].last_token)

\* C5: get_rules(v) is the list v had at construction followed by the
\* bodies the add_rule calls gave to v, in call order, none of them moved
\* or dropped.
C5_AppendOrder ==
    (last.op = "get_rules" /\ pc = "run"
        /\ AddedFor(hist, last.args[1]) # <<>>)
        => last.ret =
              Some((IF last.args[1] \in DOMAIN CreatedRules
                    THEN CreatedRules[last.args[1]] ELSE <<>>)
                   \o AddedFor(hist, last.args[1]))

\* two bodies were added to one variable, the longer one first
C5_Witness ==
    /\ last.op = "get_rules"
    /\ pc = "run"
    /\ born.op = "new"
    /\ LET added == AddedFor(hist, last.args[1])
       IN  /\ Len(added) = 2
           /\ Len(added[1]) > Len(added[2])
           /\ last.ret = Some(added)

\* C6: add_rule and get_rules abort exactly when the id is a token
\* (id <= last_token), and an aborted call leaves the grammar as it was.
C6_AbortExactlyOnTokens ==
    [][last'.op \in {"add_rule", "get_rules"}
        => /\ (pc' = "aborted") <=> (last'.args[1] <= cfg[1].last_token)
           /\ (pc' = "aborted") => (cfg' = cfg)]_vars

\* add_rule(last_token, _) aborted on a grammar that has rules
C6_Witness ==
    /\ pc = "aborted"
    /\ last.op = "add_rule"
    /\ last.args[1] = cfg[1].last_token
    /\ DOMAIN cfg[1].rules # {}

\* C7: set_name returns the name the symbol had, or None; name(s) is the
\* name of the most recent set_name(s, _), or the name given at
\* construction, or None; a set_name for another symbol does not change it.
C7_NameReplace ==
    /\ last.op = "set_name"
        => /\ hist[Len(hist)] = <<"set_name", last.args[1], last.args[2]>>
           /\ last.ret = NamedBy(SubSeq(hist, 1, Len(hist) - 1), last.args[1])
    /\ last.op = "name"
        => last.ret = NamedBy(hist, last.args[1])

\* name(s) after set_name(s, "A") and set_name(s, "B")
C7_Witness ==
    /\ last.op = "name"
    /\ last.ret = Some("B")
    /\ hist = << <<"set_name", last.args[1], "A">>,
                 <<"set_name", last.args[1], "B">> >>

\* C8: once the grammar exists no call changes last_token or start;
\* set_name leaves the rules and add_rule leaves the names as they were;
\* name, get_rules and get_start change nothing.
C8_Frame ==
    [][cfg # None
        => /\ cfg' # None
           /\ cfg'[1].last_token = cfg[1].last_token
           /\ cfg'[1].start = cfg[1].start
           /\ (last'.op = "set_name") => (cfg'[1].rules = cfg[1].rules)
           /\ (last'.op = "add_rule")
                => (cfg'[1].symbol_map = cfg[1].symbol_map)
           /\ (last'.op \in {"name", "get_rules", "get_start"})
                => (cfg' = cfg)]_vars

\* a grammar that went through add_rule and set_name
C8_Witness ==
    /\ cfg # None
    /\ \E i \in DOMAIN hist : hist[i][1] = "add_rule"
    /\ \E i \in DOMAIN hist : hist[i][1] = "set_name"
    /\ last.op = "get_start"

\* C9: get_rules(v) is None exactly when v had no entry at construction
\* and no rule was added for v; after add_rule(v, <<>>) it is a list that
\* has the empty body among its alternatives.
C9_AbsentOrListed ==
    (last.op = "get_rules" /\ pc = "run")
        => /\ (last.ret = None)
                <=> /\ last.args[1] \notin DOMAIN CreatedRules
                    /\ AddedFor(hist, last.args[1]) = <<>>
           /\ (\E i \in DOMAIN hist :
                   hist[i] = <<"add_rule", last.args[1], <<>> >>)
                => /\ last.ret # None
                   /\ \E j \in DOMAIN last.ret[1] : last.ret[1][j] = <<>>

\* get_rules(v) after the one call add_rule(v, <<>>) on an empty grammar
C9_Witness ==
    /\ last.op = "get_rules"
    /\ pc = "run"
    /\ born.op = "new"
    /\ hist = << <<"add_rule", last.args[1], <<>> >> >>
    /\ last.ret = Some(<< <<>> >>)

\* C10: in a grammar grown from new, every key of the rules table is a
\* variable and every entry holds at least one body.
C10_EntriesAreVariablesWithBodies ==
    (born.op = "new" /\ cfg # None)
        => \A k \in DOMAIN cfg[1].rules :
               k > cfg[1].last_token /\ Len(cfg[1].rules[k]) >= 1

\* two variables got a rule each, one of the bodies mentioning a symbol
C10_Witness ==
    /\ born.op = "new"
    /\ cfg # None
    /\ Cardinality(DOMAIN cfg[1].rules) = 2
    /\ \E k \in DOMAIN cfg[1].rules : cfg[1].rules[k][1] # <<>>

====
